---- MODULE Spec2Model ----
(***************************************************************************)
(* Model of src/data_processing.py: the two mapping tables loaded at       *)
(* module import, extract_counterparty / assign_category, and the          *)
(* transform_file pipeline that applies them to every ledger row.          *)
(*                                                                         *)
(* A Python str is a sequence of code points (Nat).  str.upper() is        *)
(* modelled on ASCII text, where it maps a..z to A..Z one code point at a  *)
(* time.  A dict is the sequence of its <<key, value>> items in insertion  *)
(* order, with pairwise distinct keys.                                     *)
(***************************************************************************)
EXTENDS Naturals, Integers, Sequences, FiniteSets, TLC

\* ------------------------------------------------------------------ bounds
MaxAliases == 2          \* entries of the alias mapping document
MaxCounterparties == 2   \* entries of the category mapping document
MaxSubjectLen == 2       \* length of a subject passed to a direct call
MaxRows == 3             \* rows of the input ledger

\* ------------------------------------------------------- string literals
\* "UNCATEGORIZED", the counterparty fallback
UNCATEGORIZED_COUNTERPARTY == <<85, 78, 67, 65, 84, 69, 71, 79, 82, 73, 90, 69, 68>>
\* "uncategorized", the category fallback
uncategorized_category == <<117, 110, 99, 97, 116, 101, 103, 111, 114, 105, 122, 101, 100>>

\* ------------------------------------------------------------ str / dict
\* str.upper() on one ASCII code point
UpperChar(c) == IF c >= 97 /\ c <= 122 THEN c - 32 ELSE c

\* str.upper()
Upper(s) == [i \in 1..Len(s) |-> UpperChar(s[i])]

\* a < b on str: code point order, a proper prefix is smaller
StrLess(a, b) ==
    \E i \in 1..Len(b) :
        /\ i <= Len(a) + 1
        /\ \A j \in 1..(i - 1) : a[j] = b[j]
        /\ (i = Len(a) + 1 \/ a[i] < b[i])

\* p < q on (key, value) tuples: first component, then second
TupleLess(p, q) == StrLess(p[1], q[1]) \/ (p[1] = q[1] /\ StrLess(p[2], q[2]))

\* variant: an empty needle is never found
ContainsNonEmpty(haystack, needle) ==
    /\ needle # <<>>
    /\ \E i \in 0..(Len(haystack) - Len(needle)) :
        SubSeq(haystack, i + 1, i + Len(needle)) = needle

\* `needle in haystack` on str
Contains(haystack, needle) ==
    \E i \in 0..(Len(haystack) - Len(needle)) :
        SubSeq(haystack, i + 1, i + Len(needle)) = needle

\* dict.keys()
Keys(d) == [i \in 1..Len(d) |-> d[i][1]]

KeySet(d) == {d[i][1] : i \in 1..Len(d)}

ValueSet(d) == {d[i][2] : i \in 1..Len(d)}

\* d[key] = value: an existing key keeps its position, a new key is appended
DictSet(d, key, value) ==
    IF key \in KeySet(d)
    THEN [i \in 1..Len(d) |-> IF d[i][1] = key THEN <<key, value>> ELSE d[i]]
    ELSE Append(d, <<key, value>>)

\* d.get(key, default)
DictGet(d, key, default) ==
    IF key \in KeySet(d)
    THEN d[CHOOSE i \in 1..Len(d) : d[i][1] = key][2]
    ELSE default

\* sorted(d.items(), reverse=True): insertion into a descending list of
\* (key, value) tuples, before the first tuple that is smaller
RECURSIVE InsertItemDescending(_, _)
InsertItemDescending(x, xs) ==
    IF xs = <<>> THEN <<x>>
    ELSE IF TupleLess(Head(xs), x) THEN <<x>> \o xs
    ELSE <<Head(xs)>> \o InsertItemDescending(x, Tail(xs))

\* variant: d.items() iterated in insertion order, not sorted
ItemsInsertionOrder(xs) == xs

RECURSIVE SortedItemsReverse(_)
SortedItemsReverse(xs) ==
    IF xs = <<>> THEN <<>>
    ELSE InsertItemDescending(Head(xs), SortedItemsReverse(Tail(xs)))

\* sorted(d.keys(), reverse=True): the same on str
RECURSIVE InsertKeyDescending(_, _)
InsertKeyDescending(x, xs) ==
    IF xs = <<>> THEN <<x>>
    ELSE IF StrLess(Head(xs), x) THEN <<x>> \o xs
    ELSE <<Head(xs)>> \o InsertKeyDescending(x, Tail(xs))

\* variant: sorted(d.keys()) without reverse=True
RECURSIVE InsertKeyAscending(_, _)
InsertKeyAscending(x, xs) ==
    IF xs = <<>> THEN <<x>>
    ELSE IF StrLess(x, Head(xs)) THEN <<x>> \o xs
    ELSE <<Head(xs)>> \o InsertKeyAscending(x, Tail(xs))

RECURSIVE SortedKeysAscending(_)
SortedKeysAscending(xs) ==
    IF xs = <<>> THEN <<>>
    ELSE InsertKeyAscending(Head(xs), SortedKeysAscending(Tail(xs)))

RECURSIVE SortedKeysReverse(_)
SortedKeysReverse(xs) ==
    IF xs = <<>> THEN <<>>
    ELSE InsertKeyDescending(Head(xs), SortedKeysReverse(Tail(xs)))

\* ------------------------------------------------------------ input sets
SeqUpTo(S, n) == UNION {[1..k -> S] : k \in 0..n}

\* code points of "A", "B", "b"
Alphabet == {65, 66, 98}

\* subjects passed to a direct call of extract_counterparty
Subjects == SeqUpTo(Alphabet, MaxSubjectLen)

\* items of config/alias_mapping.json as written in the document:
\* "": "xy", "b": "Ab", "Ab": "ba"
AliasPairs ==
    { << <<>>, <<120, 121>> >>,
      << <<98>>, <<65, 98>> >>,
      << <<65, 98>>, <<98, 97>> >> }

\* items of config/category_mapping.json as written in the document:
\* "": "shop", "A": "food", "Ab": "shop", "uncategorized": "misc"
CategoryPairs ==
    { << <<>>, <<115, 104, 111, 112>> >>,
      << <<65>>, <<102, 111, 111, 100>> >>,
      << <<65, 98>>, <<115, 104, 111, 112>> >>,
      << uncategorized_category, <<109, 105, 115, 99>> >> }

\* a mapping file: absent, not JSON, JSON that is not an object, or a JSON
\* object given by its items in document order
BadDocuments ==
    { [kind |-> k, pairs |-> <<>>] : k \in {"missing", "invalid", "array"} }

AliasDocuments ==
    BadDocuments \cup
    { [kind |-> "object", pairs |-> ps] : ps \in SeqUpTo(AliasPairs, MaxAliases) }

CategoryDocuments ==
    BadDocuments \cup
    { [kind |-> "object", pairs |-> ps]
        : ps \in SeqUpTo(CategoryPairs, MaxCounterparties) }

\* subject cells of the ledger, all text: "Ab", "b"
RowSubjects == {<<65, 98>>, <<98>>}

Ledgers == SeqUpTo(RowSubjects, MaxRows) \ {<<>>}

\* ------------------------------------------------------------------ state
VARIABLES
    categoryDoc,      \* the file CATEGORY_MAPPING
    aliasDoc,         \* the file ALIAS_MAPPING
    defined,          \* module globals bound so far
    CP2CAT,           \* global CP2CAT
    ALIASES,          \* global ALIASES
    pc,               \* position of the running script or caller
    df_subject,       \* df_processed["subject"]
    df_counterparty,  \* df_processed["counterparty"], filled by apply
    df_category,      \* df_processed["category"], filled by apply
    written,          \* OUTPUT_FILE has been written
    subject,          \* argument of the latest direct call
    counterparty,     \* result of the latest extract_counterparty call
    category          \* result of the latest assign_category call

vars == <<categoryDoc, aliasDoc, defined, CP2CAT, ALIASES, pc, df_subject,
          df_counterparty, df_category, written, subject, counterparty, category>>

\* ---------------------------------------------------------------- loaders
\* json.load(f) on a JSON object: a repeated key keeps the last value
RECURSIVE json_load(_)
json_load(pairs) ==
    IF pairs = <<>> THEN <<>>
    ELSE LET front == json_load(SubSeq(pairs, 1, Len(pairs) - 1))
             last == pairs[Len(pairs)]
         IN DictSet(front, last[1], last[2])

\* {key.upper(): value for key, value in mapping.items()}
RECURSIVE upper_keys(_)
upper_keys(mapping) ==
    IF mapping = <<>> THEN <<>>
    ELSE LET front == upper_keys(SubSeq(mapping, 1, Len(mapping) - 1))
             last == mapping[Len(mapping)]
         IN DictSet(front, Upper(last[1]), last[2])

\* open() raises on a missing file, json.load on invalid JSON, and
\* mapping.items() on a JSON document that is not an object
loads_ok(doc) == doc.kind = "object"

load_category_mapping(doc) == upper_keys(json_load(doc.pairs))

load_alias_mapping(doc) == upper_keys(json_load(doc.pairs))

\* ------------------------------------------------------------- resolution
\* index of the first element of items whose key is in subject_upper, or 0
RECURSIVE first_alias_hit(_, _, _)
first_alias_hit(items, subject_upper, i) ==
    IF i > Len(items) THEN 0
    ELSE IF Contains(subject_upper, items[i][1]) THEN i
    ELSE first_alias_hit(items, subject_upper, i + 1)

\* index of the first key that is in subject_upper, or 0
RECURSIVE first_key_hit(_, _, _)
first_key_hit(keys, subject_upper, i) ==
    IF i > Len(keys) THEN 0
    ELSE IF Contains(subject_upper, keys[i]) THEN i
    ELSE first_key_hit(keys, subject_upper, i + 1)

\* variant: the canonical name is returned as written, not upper-cased
extract_counterparty_canonical_as_is(subj) ==
    LET subject_upper == Upper(subj)
        items == SortedItemsReverse(ALIASES)
        a == first_alias_hit(items, subject_upper, 1)
        keys == SortedKeysReverse(Keys(CP2CAT))
        c == first_key_hit(keys, subject_upper, 1)
    IN IF a # 0 THEN items[a][2]
       ELSE IF c # 0 THEN keys[c]
       ELSE UNCATEGORIZED_COUNTERPARTY

\* variant: the mapping keys are checked before the aliases
extract_counterparty_mapping_first(subj) ==
    LET subject_upper == Upper(subj)
        items == SortedItemsReverse(ALIASES)
        a == first_alias_hit(items, subject_upper, 1)
        keys == SortedKeysReverse(Keys(CP2CAT))
        c == first_key_hit(keys, subject_upper, 1)
    IN IF c # 0 THEN keys[c]
       ELSE IF a # 0 THEN Upper(items[a][2])
       ELSE UNCATEGORIZED_COUNTERPARTY

\* variant: the subject is matched as written, not upper-cased
extract_counterparty_raw_subject(subj) ==
    LET items == SortedItemsReverse(ALIASES)
        a == first_alias_hit(items, subj, 1)
        keys == SortedKeysReverse(Keys(CP2CAT))
        c == first_key_hit(keys, subj, 1)
    IN IF a # 0 THEN Upper(items[a][2])
       ELSE IF c # 0 THEN keys[c]
       ELSE UNCATEGORIZED_COUNTERPARTY

extract_counterparty(subj) ==
    LET subject_upper == Upper(subj)
        items == SortedItemsReverse(ALIASES)
        a == first_alias_hit(items, subject_upper, 1)
        keys == SortedKeysReverse(Keys(CP2CAT))
        c == first_key_hit(keys, subject_upper, 1)
    IN IF a # 0 THEN Upper(items[a][2])
       ELSE IF c # 0 THEN keys[c]
       ELSE UNCATEGORIZED_COUNTERPARTY

\* variant: one fallback literal for both columns
assign_category_upper_fallback(cp) ==
    DictGet(CP2CAT, cp, UNCATEGORIZED_COUNTERPARTY)

assign_category(cp) == DictGet(CP2CAT, cp, uncategorized_category)

\* the (counterparty, category) pair of one record
resolve(subj) ==
    LET cp == extract_counterparty(subj) IN <<cp, assign_category(cp)>>

\* ------------------------------------------------- the script, run as main
Init ==
    /\ categoryDoc \in CategoryDocuments
    /\ aliasDoc \in AliasDocuments
    /\ defined = {}
    /\ CP2CAT = <<>>
    /\ ALIASES = <<>>
    /\ pc = "import_category"
    /\ df_subject = <<>>
    /\ df_counterparty = <<>>
    /\ df_category = <<>>
    /\ written = FALSE
    /\ subject = <<>>
    /\ counterparty = <<>>
    /\ category = <<>>

\* CP2CAT = load_category_mapping(); an exception ends the import
LoadCategoryMapping ==
    /\ pc = "import_category"
    /\ IF loads_ok(categoryDoc)
       THEN /\ CP2CAT' = load_category_mapping(categoryDoc)
            /\ defined' = defined \cup {"CP2CAT"}
            /\ pc' = "import_alias"
       ELSE /\ pc' = "aborted"
            /\ UNCHANGED <<CP2CAT, defined>>
    /\ UNCHANGED <<categoryDoc, aliasDoc, ALIASES, df_subject, df_counterparty,
                   df_category, written, subject, counterparty, category>>

\* variant: a failed load is caught and leaves an empty alias table
LoadAliasMappingLenient ==
    /\ pc = "import_alias"
    /\ ALIASES' = IF loads_ok(aliasDoc) THEN load_alias_mapping(aliasDoc) ELSE <<>>
    /\ defined' = defined \cup {"ALIASES"}
    /\ pc' = "main"
    /\ UNCHANGED <<categoryDoc, aliasDoc, CP2CAT, df_subject, df_counterparty,
                   df_category, written, subject, counterparty, category>>

\* ALIASES = load_alias_mapping(); an exception ends the import
LoadAliasMapping ==
    /\ pc = "import_alias"
    /\ IF loads_ok(aliasDoc)
       THEN /\ ALIASES' = load_alias_mapping(aliasDoc)
            /\ defined' = defined \cup {"ALIASES"}
            /\ pc' = "main"
       ELSE /\ pc' = "aborted"
            /\ UNCHANGED <<ALIASES, defined>>
    /\ UNCHANGED <<categoryDoc, aliasDoc, CP2CAT, df_subject, df_counterparty,
                   df_category, written, subject, counterparty, category>>

\* df = load_data(); df_processed = df[[..., "subject", ...]].copy()
LoadData ==
    /\ pc = "main"
    /\ \E rows \in Ledgers : df_subject' = rows
    /\ pc' = "extract"
    /\ UNCHANGED <<categoryDoc, aliasDoc, defined, CP2CAT, ALIASES,
                   df_counterparty, df_category, written, subject,
                   counterparty, category>>

\* load_data() raises: input file missing or empty, amount or date malformed
LoadDataFails ==
    /\ pc = "main"
    /\ pc' = "aborted"
    /\ UNCHANGED <<categoryDoc, aliasDoc, defined, CP2CAT, ALIASES, df_subject,
                   df_counterparty, df_category, written, subject,
                   counterparty, category>>

\* variant: an alias that matched is removed from ALIASES
ApplyExtractCounterpartyConsuming ==
    /\ pc = "extract"
    /\ IF Len(df_counterparty) < Len(df_subject)
       THEN LET cell == df_subject[Len(df_counterparty) + 1]
                items == SortedItemsReverse(ALIASES)
                a == first_alias_hit(items, Upper(cell), 1)
            IN /\ df_counterparty' =
                      Append(df_counterparty, extract_counterparty(cell))
               /\ ALIASES' = IF a = 0 THEN ALIASES
                             ELSE SelectSeq(ALIASES, LAMBDA it : it # items[a])
               /\ pc' = pc
       ELSE /\ pc' = "assign"
            /\ UNCHANGED <<df_counterparty, ALIASES>>
    /\ UNCHANGED <<categoryDoc, aliasDoc, defined, CP2CAT, df_subject,
                   df_category, written, subject, counterparty, category>>

\* df_processed["subject"].apply(extract_counterparty), one element a step
ApplyExtractCounterparty ==
    /\ pc = "extract"
    /\ IF Len(df_counterparty) < Len(df_subject)
       THEN LET cell == df_subject[Len(df_counterparty) + 1]
            IN /\ df_counterparty' =
                      Append(df_counterparty, extract_counterparty(cell))
               /\ pc' = pc
       ELSE /\ pc' = "assign"
            /\ UNCHANGED df_counterparty
    /\ UNCHANGED <<categoryDoc, aliasDoc, defined, CP2CAT, ALIASES, df_subject,
                   df_category, written, subject, counterparty, category>>

\* df_processed["counterparty"].apply(assign_category), one element a step
ApplyAssignCategory ==
    /\ pc = "assign"
    /\ IF Len(df_category) < Len(df_counterparty)
       THEN /\ df_category' =
                   Append(df_category,
                          assign_category(df_counterparty[Len(df_category) + 1]))
            /\ pc' = pc
       ELSE /\ pc' = "to_csv"
            /\ UNCHANGED df_category
    /\ UNCHANGED <<categoryDoc, aliasDoc, defined, CP2CAT, ALIASES, df_subject,
                   df_counterparty, written, subject, counterparty, category>>

\* df_processed.to_csv(OUTPUT_FILE, ...)
ToCsv ==
    /\ pc = "to_csv"
    /\ written' = TRUE
    /\ pc' = "done"
    /\ UNCHANGED <<categoryDoc, aliasDoc, defined, CP2CAT, ALIASES, df_subject,
                   df_counterparty, df_category, subject, counterparty, category>>

\* to_csv raises: output directory missing or not writable
ToCsvFails ==
    /\ pc = "to_csv"
    /\ pc' = "aborted"
    /\ UNCHANGED <<categoryDoc, aliasDoc, defined, CP2CAT, ALIASES, df_subject,
                   df_counterparty, df_category, written, subject,
                   counterparty, category>>

Next ==
    \/ LoadCategoryMapping
    \/ LoadAliasMapping
    \/ LoadData
    \/ LoadDataFails
    \/ ApplyExtractCounterparty
    \/ ApplyAssignCategory
    \/ ToCsv
    \/ ToCsvFails

Spec == Init /\ [][Next]_vars

\* ------------------------- the module imported, its functions called directly
InitResolve ==
    /\ categoryDoc \in CategoryDocuments
    /\ aliasDoc \in AliasDocuments
    /\ loads_ok(categoryDoc)
    /\ loads_ok(aliasDoc)
    /\ defined = {"CP2CAT", "ALIASES"}
    /\ CP2CAT = load_category_mapping(categoryDoc)
    /\ ALIASES = load_alias_mapping(aliasDoc)
    /\ pc = "ready"
    /\ df_subject = <<>>
    /\ df_counterparty = <<>>
    /\ df_category = <<>>
    /\ written = FALSE
    /\ subject = <<>>
    /\ counterparty = <<>>
    /\ category = <<>>

\* counterparty = extract_counterparty(subject), for any str
CallExtractCounterparty ==
    /\ pc \in {"ready", "resolved"}
    /\ \E s \in Subjects :
        /\ subject' = s
        /\ counterparty' = extract_counterparty(s)
    /\ category' = <<>>
    /\ pc' = "extracted"
    /\ UNCHANGED <<categoryDoc, aliasDoc, defined, CP2CAT, ALIASES, df_subject,
                   df_counterparty, df_category, written>>

\* category = assign_category(counterparty)
CallAssignCategory ==
    /\ pc = "extracted"
    /\ category' = assign_category(counterparty)
    /\ pc' = "resolved"
    /\ UNCHANGED <<categoryDoc, aliasDoc, defined, CP2CAT, ALIASES, df_subject,
                   df_counterparty, df_category, written, subject, counterparty>>

NextResolve ==
    \/ CallExtractCounterparty
    \/ CallAssignCategory

SpecResolve == InitResolve /\ [][NextResolve]_vars

TypeOK == pc \in {"import_category", "import_alias", "main", "extract", "assign",
                  "to_csv", "done", "aborted", "ready", "extracted", "resolved"}

\* ------------------------------------------------------------- properties
StrLeq(a, b) == a = b \/ StrLess(a, b)

ProperPrefix(a, b) == Len(a) < Len(b) /\ SubSeq(b, 1, Len(a)) = a

\* the greatest string of a non-empty set
Greatest(S) == CHOOSE k \in S : \A j \in S : StrLeq(j, k)

\* keys of each table that occur in the upper-cased subject of the latest call
AliasMatches == {k \in KeySet(ALIASES) : Contains(Upper(subject), k)}

CounterpartyMatches == {k \in KeySet(CP2CAT) : Contains(Upper(subject), k)}

\* the upper-cased canonical name stored under an alias key
Canonical(k) ==
    Upper(ALIASES[CHOOSE i \in 1..Len(ALIASES) : ALIASES[i][1] = k][2])

\* the category stored under a Category Table key
CategoryOf(k) == CP2CAT[CHOOSE i \in 1..Len(CP2CAT) : CP2CAT[i][1] = k][2]

Extracted == pc \in {"extracted", "resolved"}

Resolved == pc = "resolved"

\* C1: every call returns a counterparty that is "UNCATEGORIZED", the
\* upper-cased value of an Alias Table entry or a Category Table key, and a
\* category that is "uncategorized" or a Category Table value.
C1_ResultRange ==
    /\ Extracted =>
          counterparty \in {UNCATEGORIZED_COUNTERPARTY}
                           \cup {Upper(v) : v \in ValueSet(ALIASES)}
                           \cup KeySet(CP2CAT)
    /\ Resolved =>
          category \in {uncategorized_category} \cup ValueSet(CP2CAT)

C1_Witness ==
    /\ Resolved
    /\ AliasMatches # {}
    /\ counterparty \in {Upper(v) : v \in ValueSet(ALIASES)}
    /\ counterparty \notin ValueSet(ALIASES)
    /\ category \in ValueSet(CP2CAT)

\* C2: when some Alias Table key occurs in the upper-cased subject the result
\* is the upper-cased canonical name of a matching alias, also when a
\* Category Table key occurs too; a Category Table key is the result only
\* when no alias key occurs.
C2_AliasPrecedence ==
    Extracted =>
       /\ AliasMatches # {} =>
             counterparty \in {Canonical(k) : k \in AliasMatches}
       /\ (AliasMatches = {} /\ CounterpartyMatches # {}) =>
             counterparty \in CounterpartyMatches

C2_Witness ==
    /\ Extracted
    /\ AliasMatches # {}
    /\ CounterpartyMatches # {}
    /\ counterparty \notin CounterpartyMatches

\* C3: in each pass the deciding key is the greatest matching key in string
\* order, whatever the insertion order of the table.
C3_GreatestKeyDecides ==
    Extracted =>
       /\ AliasMatches # {} =>
             counterparty = Canonical(Greatest(AliasMatches))
       /\ (AliasMatches = {} /\ CounterpartyMatches # {}) =>
             counterparty = Greatest(CounterpartyMatches)

\* several aliases match and the greatest was not inserted first
C3_Witness ==
    /\ Extracted
    /\ Cardinality(AliasMatches) >= 2
    /\ ALIASES[1][1] \in AliasMatches
    /\ ALIASES[1][1] # Greatest(AliasMatches)
    /\ counterparty = Canonical(Greatest(AliasMatches))

\* C4: subjects that are equal after upper-casing resolve to the same pair.
C4_CaseInsensitive ==
    Resolved =>
       \A other \in Subjects :
          Upper(other) = Upper(subject) =>
             resolve(other) = <<counterparty, category>>

\* a lower-case subject matched a key, and another spelling of it exists
C4_Witness ==
    /\ Resolved
    /\ subject # Upper(subject)
    /\ Upper(subject) \in Subjects
    /\ counterparty # UNCATEGORIZED_COUNTERPARTY
    /\ AliasMatches \cup CounterpartyMatches # {}

\* C5 as stated: when no key of either table occurs in the upper-cased
\* subject the result is exactly ("UNCATEGORIZED", "uncategorized").
C5_NoMatchFallback ==
    (Resolved /\ AliasMatches = {} /\ CounterpartyMatches = {}) =>
       /\ counterparty = UNCATEGORIZED_COUNTERPARTY
       /\ category = uncategorized_category

\* C5 amended: when no key of either table occurs in the upper-cased subject
\* the counterparty is "UNCATEGORIZED", and the category is "uncategorized"
\* unless the Category Table has the key "UNCATEGORIZED", whose value is then
\* the category.
C5_NoMatchFallbackLookup ==
    (Resolved /\ AliasMatches = {} /\ CounterpartyMatches = {}) =>
       /\ counterparty = UNCATEGORIZED_COUNTERPARTY
       /\ category = IF UNCATEGORIZED_COUNTERPARTY \in KeySet(CP2CAT)
                     THEN CategoryOf(UNCATEGORIZED_COUNTERPARTY)
                     ELSE uncategorized_category

C5_Witness ==
    /\ Resolved
    /\ AliasMatches = {}
    /\ CounterpartyMatches = {}
    /\ ALIASES # <<>>
    /\ CP2CAT # <<>>
    /\ subject # <<>>
    /\ category = uncategorized_category

\* C6 as stated: the empty subject resolves to
\* ("UNCATEGORIZED", "uncategorized") whatever the keys of the tables.
C6_EmptySubjectFallback ==
    (Resolved /\ subject = <<>>) =>
       /\ counterparty = UNCATEGORIZED_COUNTERPARTY
       /\ category = uncategorized_category

\* C6 amended: the empty subject resolves to the counterparty
\* "UNCATEGORIZED" when neither table has the empty string as a key, and then
\* to the category "uncategorized" unless the Category Table has the key
\* "UNCATEGORIZED"; an empty key occurs in the empty subject and decides the
\* result, the Alias Table's before the Category Table's.
C6_EmptySubject ==
    (Resolved /\ subject = <<>>) =>
       /\ (<<>> \notin KeySet(ALIASES) /\ <<>> \notin KeySet(CP2CAT)) =>
             /\ counterparty = UNCATEGORIZED_COUNTERPARTY
             /\ UNCATEGORIZED_COUNTERPARTY \notin KeySet(CP2CAT) =>
                   category = uncategorized_category
       /\ <<>> \in KeySet(ALIASES) => counterparty = Canonical(<<>>)
       /\ (<<>> \notin KeySet(ALIASES) /\ <<>> \in KeySet(CP2CAT)) =>
             /\ counterparty = <<>>
             /\ category = CategoryOf(<<>>)

C6_Witness ==
    /\ Resolved
    /\ subject = <<>>
    /\ Len(ALIASES) >= 2
    /\ Len(CP2CAT) >= 2
    /\ counterparty = UNCATEGORIZED_COUNTERPARTY
    /\ category = uncategorized_category

\* C7: rows with the same subject get the same counterparty and the same
\* category whatever was resolved in between, and the tables stay what the
\* loaders returned.
C7_Deterministic ==
    /\ \A i, j \in 1..Len(df_counterparty) :
          df_subject[i] = df_subject[j] =>
             df_counterparty[i] = df_counterparty[j]
    /\ \A i, j \in 1..Len(df_category) :
          df_subject[i] = df_subject[j] => df_category[i] = df_category[j]
    /\ "CP2CAT" \in defined => CP2CAT = load_category_mapping(categoryDoc)
    /\ "ALIASES" \in defined => ALIASES = load_alias_mapping(aliasDoc)

\* the same subject resolved twice through an alias, another one in between
C7_Witness ==
    /\ Len(df_category) = 3
    /\ df_subject[1] = df_subject[3]
    /\ df_subject[2] # df_subject[1]
    /\ df_counterparty[1] \in {Upper(v) : v \in ValueSet(ALIASES)}
    /\ df_counterparty[1] = df_counterparty[3]
    /\ df_counterparty[2] # df_counterparty[1]

\* C8: a record is resolved or the output written only after both tables
\* have been loaded, and with a mapping document that is missing or does not
\* parse the run never gets past the import: nothing is resolved or written.
C8_ConfigErrorsFatal ==
    /\ (\/ pc \in {"main", "extract", "assign", "to_csv", "done"}
        \/ df_subject # <<>>
        \/ df_counterparty # <<>>
        \/ df_category # <<>>
        \/ written) => defined = {"CP2CAT", "ALIASES"}
    /\ (~loads_ok(categoryDoc) \/ ~loads_ok(aliasDoc)) =>
          /\ pc \in {"import_category", "import_alias", "aborted"}
          /\ df_counterparty = <<>>
          /\ df_category = <<>>
          /\ ~written

\* the category mapping loaded, the alias mapping did not, the run aborted
C8_Witness ==
    /\ pc = "aborted"
    /\ loads_ok(categoryDoc)
    /\ ~loads_ok(aliasDoc)
    /\ defined = {"CP2CAT"}
    /\ ~written

\* C9 as stated: in each pass the deciding key has maximal length among the
\* matching keys of its table.
C9_LongestKeyDecides ==
    Extracted =>
       /\ AliasMatches # {} =>
             \E k \in AliasMatches :
                /\ \A j \in AliasMatches : Len(j) <= Len(k)
                /\ counterparty = Canonical(k)
       /\ (AliasMatches = {} /\ CounterpartyMatches # {}) =>
             /\ counterparty \in CounterpartyMatches
             /\ \A j \in CounterpartyMatches : Len(j) <= Len(counterparty)

\* C10: when two matching keys of a table are a proper prefix K1 and its
\* extension K2, the deciding key is not K1: it is K2 or a greater matching key.
C10_PrefixNeverDecides ==
    Extracted =>
       /\ \A K1, K2 \in AliasMatches :
             ProperPrefix(K1, K2) =>
                \E k \in AliasMatches :
                   /\ k # K1
                   /\ StrLeq(K2, k)
                   /\ counterparty = Canonical(k)
       /\ AliasMatches = {} =>
             \A K1, K2 \in CounterpartyMatches :
                ProperPrefix(K1, K2) =>
                   /\ counterparty \in CounterpartyMatches
                   /\ counterparty # K1
                   /\ StrLeq(K2, counterparty)

\* no alias matches; a non-empty Category Table key and its extension do
C10_Witness ==
    /\ Extracted
    /\ AliasMatches = {}
    /\ \E K1, K2 \in CounterpartyMatches :
          /\ K1 # <<>>
          /\ ProperPrefix(K1, K2)
          /\ counterparty = K2

====
